---- MODULE Spec2Model ----
(***************************************************************************)
(* The ranked context store of backend/services/rag_context_store.py:      *)
(* RAGContextStore with its ContextItem records, scoring functions,        *)
(* retrieval, compression, clear and statistics.                           *)
(*                                                                         *)
(* Representation.                                                         *)
(*  - A Python str is a sequence of character codes (ASCII), so that       *)
(*    lower(), split(), "in", replace() and the lexicographic comparison   *)
(*    of strings are computed character by character.                      *)
(*  - An Optional[str] is a record [some, val]; None is [some |-> FALSE].  *)
(*  - A score is an integer number of 1/Unit (Unit = 900): 0.5 is 450,     *)
(*    1.0 is 900.  Every score the code produces from the modelled inputs  *)
(*    is a whole number of these units.  A rank score is kept as           *)
(*    (recency + relevance) * weight with weight in tenths, that is, in    *)
(*    units of 1/(2 * 10 * Unit); only its order and equality are used.    *)
(*  - The dict self.items is the sequence of its values in insertion       *)
(*    order (Python dicts keep insertion order, and keep the position of   *)
(*    a key that is assigned again).                                       *)
(*  - ContextItem.details is an opaque payload no store operation reads;   *)
(*    it is left out.                                                      *)
(***************************************************************************)
EXTENDS Integers, Sequences, FiniteSets, TLC

\* ------------------------------------------------------------------ bounds

\* A run makes at most this many add_event calls: in the runs that vary the
\* configuration, and in the runs that vary the retrieval arguments.
MaxAddsSize == 4
MaxAddsRetrieve == 2
\* and in the runs that vary the order of three events.
MaxAddsRank == 3
\* A failing language-model call is made only while conversation_history has
\* fewer entries than this.
MaxConversation == 12
\* The configurations have compression_threshold in -1..MaxThreshold.
MaxThreshold == 3

\* ----------------------------------------------------------------- strings

Min(a, b) == IF a < b THEN a ELSE b
Max(a, b) == IF a > b THEN a ELSE b

None == [some |-> FALSE, val |-> <<>>]
Some(s) == [some |-> TRUE, val |-> s]
\* Python truthiness of an Optional[str]: neither None nor "".
Truthy(o) == o.some /\ o.val # <<>>

\* str.lower() on ASCII
Lower(s) == [i \in 1..Len(s) |-> IF s[i] \in 65..90 THEN s[i] + 32 ELSE s[i]]
\* str.upper() on ASCII
Upper(s) == [i \in 1..Len(s) |-> IF s[i] \in 97..122 THEN s[i] - 32 ELSE s[i]]

\* sub in s
Contains(sub, s) ==
  \E i \in 0..(Len(s) - Len(sub)) : SubSeq(s, i + 1, i + Len(sub)) = sub

IsSpace(c) == c \in {32, 9, 10, 11, 12, 13}
IsDigit(c) == c \in 48..57

RECURSIVE SplitOn(_, _)
\* s.split(sep) for a one-character separator: empty fields are kept.
SplitOn(s, sep) ==
  IF \A i \in 1..Len(s) : s[i] # sep THEN <<s>>
  ELSE LET k == CHOOSE i \in 1..Len(s) :
                  s[i] = sep /\ \A j \in 1..(i - 1) : s[j] # sep
       IN <<SubSeq(s, 1, k - 1)>> \o SplitOn(SubSeq(s, k + 1, Len(s)), sep)

RECURSIVE SplitWords(_)
\* s.split(): fields separated by runs of whitespace, no empty field.
SplitWords(s) ==
  IF \A i \in 1..Len(s) : IsSpace(s[i]) THEN <<>>
  ELSE LET a == CHOOSE i \in 1..Len(s) :
                  ~IsSpace(s[i]) /\ \A j \in 1..(i - 1) : IsSpace(s[j])
           ends == {i \in a..Len(s) : IsSpace(s[i])}
           b == IF ends = {} THEN Len(s) + 1
                ELSE CHOOSE i \in ends : \A j \in ends : i <= j
       IN <<SubSeq(s, a, b - 1)>> \o SplitWords(SubSeq(s, b, Len(s)))

\* s.strip()
Strip(s) ==
  LET keep == {i \in 1..Len(s) : ~IsSpace(s[i])}
  IN IF keep = {} THEN <<>>
     ELSE SubSeq(s, CHOOSE i \in keep : \A j \in keep : i <= j,
                    CHOOSE i \in keep : \A j \in keep : i >= j)

RECURSIVE DigitsValue(_)
DigitsValue(d) ==
  IF d = <<>> THEN 0
  ELSE 10 * DigitsValue(SubSeq(d, 1, Len(d) - 1)) + (d[Len(d)] - 48)

\* int(s): [ok, val]; ok is FALSE where Python raises ValueError.  Accepts
\* surrounding whitespace, one sign, and digits with single underscores
\* between them.
IntParse(s) ==
  LET t == Strip(s)
      signed == t # <<>> /\ t[1] \in {43, 45}
      body == IF signed THEN SubSeq(t, 2, Len(t)) ELSE t
      wellFormed ==
        /\ body # <<>>
        /\ \A i \in 1..Len(body) : IsDigit(body[i]) \/ body[i] = 95
        /\ IsDigit(body[1]) /\ IsDigit(body[Len(body)])
        /\ \A i \in 1..(Len(body) - 1) : ~(body[i] = 95 /\ body[i + 1] = 95)
      mag == DigitsValue(SelectSeq(body, IsDigit))
  IN IF ~wellFormed THEN [ok |-> FALSE, val |-> 0]
     ELSE [ok |-> TRUE, val |-> IF signed /\ t[1] = 45 THEN 0 - mag ELSE mag]

RECURSIVE DecStr(_)
\* str(n) for n >= 0
DecStr(n) ==
  IF n < 10 THEN <<48 + n>> ELSE DecStr(n \div 10) \o <<48 + (n % 10)>>

\* a < b for Python strings: lexicographic by character code.
StrLess(a, b) ==
  \E k \in 0..Min(Len(a), Len(b)) :
    /\ SubSeq(a, 1, k) = SubSeq(b, 1, k)
    /\ \/ k = Len(a) /\ k < Len(b)
       \/ k < Len(a) /\ k < Len(b) /\ a[k + 1] < b[k + 1]

StrGeq(a, b) == ~StrLess(a, b)

\* ------------------------------------------------------- ContextImportance

Levels == {"CRITICAL", "HIGH", "MEDIUM", "LOW"}

\* The enum member's .value
ImportanceValue(level) ==
  CASE level = "CRITICAL" -> <<99, 114, 105, 116, 105, 99, 97, 108>>  \* "critical"
    [] level = "HIGH"     -> <<104, 105, 103, 104>>                   \* "high"
    [] level = "MEDIUM"   -> <<109, 101, 100, 105, 117, 109>>         \* "medium"
    [] level = "LOW"      -> <<108, 111, 119>>                        \* "low"

\* importance_weight of get_rank_score, in tenths.
ImportanceWeight(level) ==
  CASE level = "CRITICAL" -> 10
    [] level = "HIGH"     -> 8
    [] level = "MEDIUM"   -> 6
    [] level = "LOW"      -> 4

\* ----------------------------------------------------------------- scoring

\* One score unit is 1/Unit; the 900.0 of _calculate_recency_score.
Unit == 900
\* p hundredths as a score
Pct(p) == (p * Unit) \div 100

\* ContextItem.get_rank_score, times 2 * 10 * Unit
RankScore(item) ==
  (item.recency_score + item.relevance_score) * ImportanceWeight(item.importance)

\* important_types of _calculate_relevance_score, in dict order
important_types == <<
  [key |-> <<112, 97, 115, 115>>, score |-> Pct(70)],                          \* "pass"
  [key |-> <<114, 117, 110>>, score |-> Pct(70)],                              \* "run"
  [key |-> <<116, 117, 114, 110, 111, 118, 101, 114>>, score |-> Pct(90)],     \* "turnover"
  [key |-> <<115, 99, 111, 114, 105, 110, 103>>, score |-> Pct(95)],           \* "scoring"
  [key |-> <<115, 97, 99, 107>>, score |-> Pct(80)],                           \* "sack"
  [key |-> <<105, 110, 116, 101, 114, 99, 101, 112, 116, 105, 111, 110>>,
   score |-> Pct(90)],                                                         \* "interception"
  [key |-> <<102, 117, 109, 98, 108, 101>>, score |-> Pct(90)],                \* "fumble"
  [key |-> <<116, 111, 117, 99, 104, 100, 111, 119, 110>>, score |-> Pct(95)], \* "touchdown"
  [key |-> <<102, 105, 101, 108, 100, 95, 103, 111, 97, 108>>,
   score |-> Pct(85)] >>                                                       \* "field_goal"

\* Faulty variant of CalculateRelevanceScore: the loop over the table has no
\* break, so the last key found in the event type gives the base score.
CalculateRelevanceScoreNoBreak(event_type, description, query) ==
  LET hits == {i \in 1..Len(important_types) :
                 Contains(Lower(important_types[i].key), Lower(event_type))}
      base == IF hits = {} THEN Pct(50)
              ELSE important_types[CHOOSE i \in hits : \A j \in hits : i >= j].score
      query_lower == Lower(query.val)
      description_lower == Lower(description)
      whole == IF Contains(query_lower, description_lower)
               THEN Min(base + Pct(30), Unit) ELSE base
      keywords == SplitWords(query_lower)
      matches == Cardinality({i \in 1..Len(keywords) :
                   Len(keywords[i]) > 3 /\ Contains(keywords[i], description_lower)})
      boosted == IF Truthy(query) THEN Min(whole + matches * Pct(10), Unit) ELSE base
  IN Min(Max(boosted, 0), Unit)

\* _calculate_relevance_score(event_type, description, query)
CalculateRelevanceScore(event_type, description, query) ==
  LET hits == {i \in 1..Len(important_types) :
                 Contains(Lower(important_types[i].key), Lower(event_type))}
      base == IF hits = {} THEN Pct(50)
              ELSE important_types[CHOOSE i \in hits : \A j \in hits : i <= j].score
      query_lower == Lower(query.val)
      description_lower == Lower(description)
      whole == IF Contains(query_lower, description_lower)
               THEN Min(base + Pct(30), Unit) ELSE base
      keywords == SplitWords(query_lower)
      matches == Cardinality({i \in 1..Len(keywords) :
                   Len(keywords[i]) > 3 /\ Contains(keywords[i], description_lower)})
      boosted == IF Truthy(query) THEN Min(whole + matches * Pct(10), Unit) ELSE base
  IN Min(Max(boosted, 0), Unit)

\* Faulty variant of CalculateRecencyScore: the clock is taken to count down,
\* so the score grows with the seconds.
CalculateRecencyScoreCountdown(timestamp) ==
  LET parts == SplitOn(timestamp, 58)
      minutes == IntParse(parts[1])
      seconds == IF Len(parts) > 1 THEN IntParse(parts[2])
                 ELSE [ok |-> TRUE, val |-> 0]
      total_seconds == minutes.val * 60 + seconds.val
  IN IF minutes.ok /\ seconds.ok
     THEN Min(Max(total_seconds, 0), Unit)
     ELSE Pct(50)

\* Faulty variant of CalculateRecencyScore: the result is not clamped.
CalculateRecencyScoreUnclamped(timestamp) ==
  LET parts == SplitOn(timestamp, 58)
      minutes == IntParse(parts[1])
      seconds == IF Len(parts) > 1 THEN IntParse(parts[2])
                 ELSE [ok |-> TRUE, val |-> 0]
      total_seconds == minutes.val * 60 + seconds.val
  IN IF minutes.ok /\ seconds.ok THEN Unit - total_seconds ELSE Pct(50)

\* _calculate_recency_score(timestamp); a ValueError of int() is caught
\* and gives 0.5.
CalculateRecencyScore(timestamp) ==
  LET parts == SplitOn(timestamp, 58)
      minutes == IntParse(parts[1])
      seconds == IF Len(parts) > 1 THEN IntParse(parts[2])
                 ELSE [ok |-> TRUE, val |-> 0]
      total_seconds == minutes.val * 60 + seconds.val
  IN IF minutes.ok /\ seconds.ok
     THEN Min(Max(Unit - total_seconds, 0), Unit)
     ELSE Pct(50)

\* ------------------------------------------------------------------- state

VARIABLES
  max_items,              \* self.max_items
  compression_threshold,  \* self.compression_threshold
  items,                  \* self.items: the ContextItems in dict order
  event_counter,          \* self.event_counter
  creation_time,          \* self.creation_time, and
  last_compression_time,  \* self.last_compression_time: a time is the number
                          \* of the datetime.now() reading that gave it
  budget,                 \* the add_event calls the run may still make
  lastOp,                 \* the operation that ran last
  lastArgs,               \* its arguments
  lastResult,             \* what it returned
  afterInsert,            \* add_event: self.items right after line 135
  compressPasses,         \* how many times the last operation ran _compress_context
  issuedIds,              \* every id add_event has returned so far
  repeatedCall,           \* the last operation repeated the one before it:
                          \* the same retrieval with the same arguments
  lastOutcome,            \* how the last operation ended: it returned, or an
                          \* exception left it
  replayItems,            \* self.items of a second store of the same
                          \* configuration that is given the add_event and
                          \* clear calls of this one and no other call
  idsSinceClear,          \* the ids add_event has returned since the last
                          \* clear(), or since construction, in order
  conversation_history,   \* DeepResearchService.conversation_history: the role
                          \* of each entry
  initialized             \* DeepResearchService._initialized

vars == <<max_items, compression_threshold, items, event_counter, creation_time,
          last_compression_time, budget, lastOp, lastArgs, lastResult, afterInsert,
          compressPasses, issuedIds, repeatedCall, lastOutcome, replayItems,
          idsSinceClear, conversation_history, initialized>>

store == <<max_items, compression_threshold, items, event_counter, creation_time,
           last_compression_time>>

research == <<conversation_history, initialized>>

\* ------------------------------------------------------------------ inputs

TS0000 == <<48, 48, 58, 48, 48>>                           \* "00:00"
TS0500 == <<48, 53, 58, 48, 48>>                           \* "05:00"
TS1000 == <<49, 48, 58, 48, 48>>                           \* "10:00"
TS1500 == <<49, 53, 58, 48, 48>>                           \* "15:00"
TS1640 == <<49, 54, 58, 52, 48>>                           \* "16:40"
TSBefore == <<45, 49, 58, 51, 48>>                         \* "-1:30"
TSGarbage == <<103, 97, 114, 98, 97, 103, 101>>            \* "garbage"
TSEmpty == <<>>                                            \* ""
TS5xx == <<53, 58, 120, 120>>                              \* "5:xx"
TS12xx == <<49, 58, 50, 58, 120, 120>>                     \* "1:2:xx"
Kick == <<107, 105, 99, 107>>                              \* "kick"
TouchdownType == <<84, 111, 117, 99, 104, 100, 111, 119, 110>>  \* "Touchdown"
LongPass == <<76, 111, 110, 103, 32, 112, 97, 115, 115>>   \* "Long pass"
TDRun == <<84, 68, 32, 114, 117, 110>>                     \* "TD run"
KC == <<75, 67>>                                           \* "KC"
SF == <<83, 70>>                                           \* "SF"
Kelce == <<75, 101, 108, 99, 101>>                         \* "Kelce"
QPass == <<112, 97, 115, 115>>                             \* "pass"
QRun == <<114, 117, 110>>                                  \* "run"
QLongPass == <<76, 79, 78, 71, 32, 80, 65, 83, 83>>                \* "LONG PASS"
PassType == <<80, 97, 115, 115>>                                  \* "Pass"
TouchdownPass == <<84, 111, 117, 99, 104, 100, 111, 119, 110, 32, 112, 97, 115, 115>>  \* "Touchdown pass"

Event(ty, de, ts, im, te, pl) ==
  [event_type |-> ty, description |-> de, timestamp |-> ts, importance |-> im,
   team |-> te, player_name |-> pl]

\* The add_event calls of the runs that vary the ranking.  The first two
\* differ only in importance.
Events == {
  Event(Kick, LongPass, TS0500, "MEDIUM", Some(KC), None),
  Event(Kick, LongPass, TS0500, "HIGH", Some(KC), None),
  Event(TouchdownType, TDRun, TS1500, "CRITICAL", None, Some(Kelce)) }

\* The add_event calls of the runs that vary the filters: three teams (one of
\* them None) and three levels.
FilterEvents == {
  Event(Kick, LongPass, TS0500, "MEDIUM", Some(KC), None),
  Event(TouchdownType, TDRun, TS1500, "CRITICAL", None, Some(Kelce)),
  Event(Kick, TDRun, TSGarbage, "LOW", Some(SF), None) }

\* The add_event calls of the runs that vary the order: three moments of the
\* game and three levels.
RankEvents == {
  Event(Kick, LongPass, TS1500, "MEDIUM", Some(KC), None),
  Event(TouchdownType, TDRun, TS1000, "CRITICAL", None, Some(Kelce)),
  Event(TouchdownType, LongPass, TS0500, "LOW", Some(SF), None) }

\* The add_event calls of the runs that vary the timestamp: one in MM:SS
\* format and four that are not.
TimestampEvents ==
  {Event(Kick, LongPass, ts, "MEDIUM", Some(KC), None) :
     ts \in {TS0500, TSGarbage, TSEmpty, TS5xx, TS12xx}}

\* The add_event calls of the runs that vary the game clock: its start, its
\* end, a moment in between, one after the end and one before the start.
ClockEvents == {
  Event(Kick, LongPass, TS0000, "CRITICAL", Some(KC), None),
  Event(Kick, LongPass, TS0500, "HIGH", Some(KC), None),
  Event(Kick, LongPass, TS1500, "MEDIUM", Some(KC), None),
  Event(TouchdownType, LongPass, TS1640, "LOW", Some(KC), None),
  Event(Kick, LongPass, TSBefore, "MEDIUM", Some(KC), None) }

\* The add_event calls of the runs that vary the relevance: an event type with
\* one key of the table, with two, and with none.
RelevanceEvents == {
  Event(PassType, LongPass, TS0500, "MEDIUM", Some(KC), None),
  Event(TouchdownPass, TDRun, TS0500, "MEDIUM", Some(KC), None),
  Event(Kick, LongPass, TS0500, "MEDIUM", Some(KC), None) }

Queries == {None, Some(QPass)}
TopKs == {1, 20}

NoArgs == [kind |-> "none"]
NoResult == <<>>

\* --------------------------------------------------------- the operations

\* Faulty variant of EventId: the counter is left out of the id.
EventIdNoCounter(counter, timestamp) ==
  <<101, 118, 101, 110, 116, 95>> \o SelectSeq(timestamp, LAMBDA c : c # 58)

\* f"event_{self.event_counter}_{timestamp.replace(':', '')}"
EventId(counter, timestamp) ==
  <<101, 118, 101, 110, 116, 95>> \o DecStr(counter) \o <<95>>
    \o SelectSeq(timestamp, LAMBDA c : c # 58)

\* self.items[event_id] = item
DictSet(its, item) ==
  IF \E i \in 1..Len(its) : its[i].id = item.id
  THEN [i \in 1..Len(its) |-> IF its[i].id = item.id THEN item ELSE its[i]]
  ELSE Append(its, item)

\* Faulty variant of SortedByRank: reverse=True forgotten.
SortedByRankAscending(seq) ==
  LET n == Len(seq)
      Before(i, j) == \/ RankScore(seq[i]) < RankScore(seq[j])
                      \/ RankScore(seq[i]) = RankScore(seq[j]) /\ i < j
      Pos(i) == 1 + Cardinality({j \in 1..n : Before(j, i)})
  IN [k \in 1..n |-> seq[CHOOSE i \in 1..n : Pos(i) = k]]

\* Faulty variant of SortedByRank: an unstable sort that turns the items of
\* equal rank around.
SortedByRankTiesReversed(seq) ==
  LET n == Len(seq)
      Before(i, j) == \/ RankScore(seq[i]) > RankScore(seq[j])
                      \/ RankScore(seq[i]) = RankScore(seq[j]) /\ i > j
      Pos(i) == 1 + Cardinality({j \in 1..n : Before(j, i)})
  IN [k \in 1..n |-> seq[CHOOSE i \in 1..n : Pos(i) = k]]

\* sorted(seq, key=lambda x: x.get_rank_score(), reverse=True): stable, so
\* items of equal rank keep their order.
SortedByRank(seq) ==
  LET n == Len(seq)
      Before(i, j) == \/ RankScore(seq[i]) > RankScore(seq[j])
                      \/ RankScore(seq[i]) = RankScore(seq[j]) /\ i < j
      Pos(i) == 1 + Cardinality({j \in 1..n : Before(j, i)})
  IN [k \in 1..n |-> seq[CHOOSE i \in 1..n : Pos(i) = k]]

\* Faulty variants of KeepCount: nothing evicted; round() instead of int().
KeepCountAll(n) == n

KeepCountRounded(n) == (n * 6 + 5) \div 10

\* keep_count = int(len(all_items) * 0.6); the product is the exact multiple
\* of 0.6 for every length a store can have, so int() is the floor of 6n/10.
KeepCount(n) == (n * 6) \div 10

\* Faulty variant of CompressContext: of the items of equal rank the ones
\* inserted last are kept.
CompressContextKeepsNewest(its) ==
  LET all_items == SortedByRankTiesReversed(its)
      keep_count == KeepCount(Len(all_items))
      items_to_keep == {all_items[i].id : i \in 1..keep_count}
  IN SelectSeq(its, LAMBDA it : it.id \in items_to_keep)

\* Faulty variant of CompressContext: the recency of every item is recomputed
\* from its timestamp before the items are ranked.
CompressContextRescoring(its) ==
  LET fresh == [i \in 1..Len(its) |->
                  [its[i] EXCEPT !.recency_score = CalculateRecencyScore(its[i].timestamp)]]
      all_items == SortedByRank(fresh)
      keep_count == KeepCount(Len(all_items))
      items_to_keep == {all_items[i].id : i \in 1..keep_count}
  IN SelectSeq(fresh, LAMBDA it : it.id \in items_to_keep)

\* _compress_context: the items left in self.items
CompressContext(its) ==
  LET all_items == SortedByRank(its)
      keep_count == KeepCount(Len(all_items))
      items_to_keep == {all_items[i].id : i \in 1..keep_count}
  IN SelectSeq(its, LAMBDA it : it.id \in items_to_keep)

\* The ContextItem add_event builds (lines 118-133)
NewItem(id, ev) ==
  [id |-> id, timestamp |-> ev.timestamp, event_type |-> ev.event_type,
   description |-> ev.description, importance |-> ev.importance,
   team |-> ev.team, player_name |-> ev.player_name,
   recency_score |-> Unit,
   relevance_score |-> CalculateRelevanceScore(ev.event_type, ev.description, None)]

\* Faulty variant of AddEvent: the pass runs when the store exceeds max_items.
AddEventAtMaxItems(ev) ==
  /\ budget > 0
  /\ budget' = budget - 1
  /\ LET counter == event_counter + 1
         event_id == EventId(counter, ev.timestamp)
         inserted == DictSet(items, NewItem(event_id, ev))
         compress == Len(inserted) > max_items
     IN /\ event_counter' = counter
        /\ afterInsert' = inserted
        /\ items' = IF compress THEN CompressContext(inserted) ELSE inserted
        /\ compressPasses' = IF compress THEN 1 ELSE 0
        /\ last_compression_time' =
             IF compress THEN last_compression_time + 1 ELSE last_compression_time
        /\ lastOp' = "add_event"
        /\ lastArgs' = [kind |-> "event", event |-> ev]
        /\ lastResult' = event_id
        /\ issuedIds' = issuedIds \cup {event_id}
        /\ idsSinceClear' = Append(idsSinceClear, event_id)
        /\ repeatedCall' = FALSE
        /\ lastOutcome' = "returned"
        /\ replayItems' =
             LET replayed == DictSet(replayItems, NewItem(event_id, ev))
             IN IF Len(replayed) > compression_threshold
                THEN CompressContext(replayed) ELSE replayed
  /\ UNCHANGED research
  /\ UNCHANGED <<max_items, compression_threshold, creation_time>>

\* add_event(event_type, description, timestamp, importance, team, player_name)
AddEvent(ev) ==
  /\ budget > 0
  /\ budget' = budget - 1
  /\ LET counter == event_counter + 1
         event_id == EventId(counter, ev.timestamp)
         inserted == DictSet(items, NewItem(event_id, ev))
         compress == Len(inserted) > compression_threshold
     IN /\ event_counter' = counter
        /\ afterInsert' = inserted
        /\ items' = IF compress THEN CompressContext(inserted) ELSE inserted
        /\ compressPasses' = IF compress THEN 1 ELSE 0
        /\ last_compression_time' =
             IF compress THEN last_compression_time + 1 ELSE last_compression_time
        /\ lastOp' = "add_event"
        /\ lastArgs' = [kind |-> "event", event |-> ev]
        /\ lastResult' = event_id
        /\ issuedIds' = issuedIds \cup {event_id}
        /\ idsSinceClear' = Append(idsSinceClear, event_id)
        /\ repeatedCall' = FALSE
        /\ lastOutcome' = "returned"
        /\ replayItems' =
             LET replayed == DictSet(replayItems, NewItem(event_id, ev))
             IN IF Len(replayed) > compression_threshold
                THEN CompressContext(replayed) ELSE replayed
  /\ UNCHANGED research
  /\ UNCHANGED <<max_items, compression_threshold, creation_time>>

\* item.importance.value >= importance_filter.value, on the enum's strings
ImportancePass(item, importance_filter) ==
  StrGeq(ImportanceValue(item.importance), ImportanceValue(importance_filter))

\* Faulty variant of TeamPass: items without a team pass every team filter.
TeamPassOrNone(item, team_filter) ==
  ~item.team.some \/ item.team = team_filter

\* item.team == team_filter
TeamPass(item, team_filter) == item.team = team_filter

\* The items retrieve_ranked_context keeps after its two filters (lines 164-177)
IsCandidate(item, importance_filter, team_filter) ==
  /\ importance_filter # "NONE" => ImportancePass(item, importance_filter)
  /\ Truthy(team_filter) => TeamPass(item, team_filter)

\* Faulty variant of Rescore: the query boost is added to the stored
\* relevance instead of the base score.
RescoreAccumulating(item, query) ==
  [item EXCEPT
     !.relevance_score =
        IF Truthy(query)
        THEN Min(item.relevance_score
                   + CalculateRelevanceScore(item.event_type, item.description, query)
                   - CalculateRelevanceScore(item.event_type, item.description, None),
                 Unit)
        ELSE item.relevance_score,
     !.recency_score = CalculateRecencyScore(item.timestamp)]

\* Lines 179-190 on one candidate: the relevance only with a query, the
\* recency always.
Rescore(item, query) ==
  [item EXCEPT
     !.relevance_score =
        IF Truthy(query)
        THEN CalculateRelevanceScore(item.event_type, item.description, query)
        ELSE item.relevance_score,
     !.recency_score = CalculateRecencyScore(item.timestamp)]

\* Faulty variants of ItemsAfterRetrieve: every stored item is rescored; the
\* items that are not candidates are dropped from the store.
ItemsAfterRetrieveAll(its, query, importance_filter, team_filter) ==
  [i \in 1..Len(its) |-> Rescore(its[i], query)]

ItemsAfterRetrieveDropping(its, query, importance_filter, team_filter) ==
  LET kept == SelectSeq(its, LAMBDA it : IsCandidate(it, importance_filter, team_filter))
  IN [i \in 1..Len(kept) |-> Rescore(kept[i], query)]

\* self.items after retrieve_ranked_context: the candidates are rescored in
\* place, the others untouched.
ItemsAfterRetrieve(its, query, importance_filter, team_filter) ==
  [i \in 1..Len(its) |->
     IF IsCandidate(its[i], importance_filter, team_filter)
     THEN Rescore(its[i], query) ELSE its[i]]

\* Faulty variant of Slice: one item too many.
SliceInclusive(lst, k) == SubSeq(lst, 1, Min(k + 1, Len(lst)))

\* lst[:k]
Slice(lst, k) ==
  IF k >= 0 THEN SubSeq(lst, 1, Min(k, Len(lst)))
  ELSE SubSeq(lst, 1, Max(Len(lst) + k, 0))

\* Faulty variant of Retrieve: the candidates are sorted by the scores
\* stored before the call rescored them.
RetrieveStaleOrder(its, query, top_k, importance_filter, team_filter) ==
  LET updated == ItemsAfterRetrieve(its, query, importance_filter, team_filter)
      stale == SortedByRank(SelectSeq(its,
                 LAMBDA it : IsCandidate(it, importance_filter, team_filter)))
  IN [items |-> updated,
      result |-> Slice([i \in 1..Len(stale) |-> Rescore(stale[i], query)], top_k)]

\* retrieve_ranked_context from the store its: the list it returns (result)
\* and self.items when it returns (items).  The candidates are rescored
\* (lines 179-190), then sorted (lines 193-197) and cut (line 199).
Retrieve(its, query, top_k, importance_filter, team_filter) ==
  LET updated == ItemsAfterRetrieve(its, query, importance_filter, team_filter)
      filtered_items == SelectSeq(updated,
                          LAMBDA it : IsCandidate(it, importance_filter, team_filter))
  IN [items |-> updated, result |-> Slice(SortedByRank(filtered_items), top_k)]

Ids(lst) == [i \in 1..Len(lst) |-> lst[i].id]

RetrieveRankedContext(query, top_k, importance_filter, team_filter) ==
  LET r == Retrieve(items, query, top_k, importance_filter, team_filter)
      args == [kind |-> "retrieve", query |-> query, top_k |-> top_k,
               importance_filter |-> importance_filter,
               team_filter |-> team_filter]
  IN /\ items' = r.items
     /\ lastOp' = "retrieve_ranked_context"
     /\ lastArgs' = args
     /\ repeatedCall' = (lastOp = "retrieve_ranked_context" /\ lastArgs = args)
     /\ lastResult' = Ids(r.result)
     /\ afterInsert' = <<>>
     /\ compressPasses' = 0
     /\ lastOutcome' = "returned"
     /\ UNCHANGED research
     /\ UNCHANGED <<max_items, compression_threshold, event_counter, creation_time,
                    last_compression_time, budget, issuedIds, replayItems,
                    idsSinceClear>>

\* The lines get_context_summary writes for one item
SummaryLines(item) ==
  <<[line |-> "event", timestamp |-> item.timestamp,
     event_type |-> Upper(item.event_type),
     importance |-> ImportanceValue(item.importance),
     description |-> item.description]>>
  \o (IF Truthy(item.player_name)
      THEN <<[line |-> "player", text |-> item.player_name.val]>> ELSE <<>>)
  \o (IF Truthy(item.team)
      THEN <<[line |-> "team", text |-> item.team.val]>> ELSE <<>>)

RECURSIVE Flatten(_)
Flatten(ss) == IF ss = <<>> THEN <<>> ELSE Head(ss) \o Flatten(Tail(ss))

\* The number of items get_context_summary asks for (line 212)
SummaryTopK == 15

\* The text get_context_summary joins (lines 214-239), line by line
SummaryText(top_items, has_state) ==
  (IF has_state THEN <<[line |-> "game_state"], [line |-> "blank"]>> ELSE <<>>)
  \o <<[line |-> "Recent Events:"]>>
  \o Flatten([i \in 1..Len(top_items) |-> SummaryLines(top_items[i])])

\* get_context_summary(game_state); has_state: game_state is a non-empty dict
GetContextSummary(has_state) ==
  LET r == Retrieve(items, None, SummaryTopK, "NONE", None)
      top_items == r.result
  IN /\ items' = r.items
     /\ lastOp' = "get_context_summary"
     /\ lastArgs' = [kind |-> "summary", has_state |-> has_state]
     /\ repeatedCall' = (lastOp = "get_context_summary"
                           /\ lastArgs = [kind |-> "summary", has_state |-> has_state])
     /\ lastResult' = SummaryText(top_items, has_state)
     /\ afterInsert' = <<>>
     /\ compressPasses' = 0
     /\ lastOutcome' = "returned"
     /\ UNCHANGED research
     /\ UNCHANGED <<max_items, compression_threshold, event_counter, creation_time,
                    last_compression_time, budget, issuedIds, replayItems,
                    idsSinceClear>>

\* Faulty variant of Clear: the counter is not set back.
ClearKeepsCounter ==
  /\ items' = <<>>
  /\ lastOp' = "clear"
  /\ repeatedCall' = FALSE
  /\ lastArgs' = NoArgs
  /\ lastResult' = NoResult
  /\ afterInsert' = <<>>
  /\ compressPasses' = 0
  /\ lastOutcome' = "returned"
  /\ replayItems' = <<>>
  /\ idsSinceClear' = <<>>
  /\ UNCHANGED research
  /\ UNCHANGED <<max_items, compression_threshold, event_counter, creation_time,
                 last_compression_time, budget, issuedIds>>

\* clear()
Clear ==
  /\ items' = <<>>
  /\ event_counter' = 0
  /\ lastOp' = "clear"
  /\ repeatedCall' = FALSE
  /\ lastArgs' = NoArgs
  /\ lastResult' = NoResult
  /\ afterInsert' = <<>>
  /\ compressPasses' = 0
  /\ lastOutcome' = "returned"
  /\ replayItems' = <<>>
  /\ idsSinceClear' = <<>>
  /\ UNCHANGED research
  /\ UNCHANGED <<max_items, compression_threshold, creation_time,
                 last_compression_time, budget, issuedIds>>

\* Faulty variant of ItemsByImportance: a count for every level, zero for the
\* levels that do not occur.
ItemsByImportanceAllLevels(its) ==
  [v \in {ImportanceValue(level) : level \in Levels} |->
     Cardinality({i \in 1..Len(its) : ImportanceValue(its[i].importance) = v})]

\* items_by_importance of get_stats: a count for each level that occurs
ItemsByImportance(its) ==
  LET present == {ImportanceValue(its[i].importance) : i \in 1..Len(its)}
  IN [v \in present |->
        Cardinality({i \in 1..Len(its) : ImportanceValue(its[i].importance) = v})]

GetStats ==
  /\ lastOp' = "get_stats"
  /\ repeatedCall' = FALSE
  /\ lastArgs' = NoArgs
  /\ lastResult' = [total_items |-> Len(items), max_items |-> max_items,
                    items_by_importance |-> ItemsByImportance(items),
                    creation_time |-> creation_time,
                    last_compression |-> last_compression_time]
  /\ afterInsert' = <<>>
  /\ compressPasses' = 0
  /\ lastOutcome' = "returned"
  /\ UNCHANGED research
  /\ UNCHANGED <<store, budget, issuedIds, replayItems, idsSinceClear>>

\* The default max_items (line 75), which both services pass as well
DefaultMaxItems == 500

\* RAGContextStore.__init__ with the given configuration; it reads the clock
\* twice.
Construct(mi, ct, adds) ==
  /\ max_items = mi
  /\ compression_threshold = ct
  /\ items = <<>>
  /\ event_counter = 0
  /\ creation_time = 1
  /\ last_compression_time = 2
  /\ budget = adds
  /\ lastOp = "init"
  /\ lastArgs = NoArgs
  /\ lastResult = NoResult
  /\ afterInsert = <<>>
  /\ compressPasses = 0
  /\ issuedIds = {}
  /\ repeatedCall = FALSE
  /\ lastOutcome = "returned"
  /\ replayItems = <<>>
  /\ idsSinceClear = <<>>
  /\ conversation_history = <<>>
  /\ initialized = FALSE

\* The operations a caller may run next, with arguments from the given sets
NextOver(events, queries, topks, filters, teams) ==
  \/ \E ev \in events : AddEvent(ev)
  \/ \E q \in queries, k \in topks, f \in filters, t \in teams :
       RetrieveRankedContext(q, k, f, t)
  \/ \E g \in BOOLEAN : GetContextSummary(g)
  \/ Clear
  \/ GetStats

\* Ranked retrieval over a store of the default max_items that holds up to
\* MaxAddsRetrieve items without compressing.
Init == Construct(DefaultMaxItems, MaxAddsRetrieve, MaxAddsRetrieve)

Next == NextOver(Events, Queries, TopKs, {"NONE", "MEDIUM"}, {None})

Spec == Init /\ [][Next]_vars

\* Filtered retrieval over the same store.
NextFilter ==
  NextOver(FilterEvents, {None}, {20}, {"NONE"} \cup Levels, {None, Some(KC)})

SpecFilter == Init /\ [][NextFilter]_vars

\* Insertion and compression under every configuration.
SizeEvents == {
  Event(Kick, LongPass, TS0500, "MEDIUM", Some(KC), None),
  Event(TouchdownType, TDRun, TS1500, "CRITICAL", None, Some(Kelce)) }

InitSize ==
  \/ \E ct \in (0 - 1)..MaxThreshold : Construct(1, ct, MaxAddsSize)
  \/ Construct(DefaultMaxItems, 1, MaxAddsSize)

NextSize == NextOver(SizeEvents, {Some(QPass)}, {20}, {"NONE"}, {None})

SpecSize == InitSize /\ [][NextSize]_vars

\* The order of three events: a store that holds up to MaxAddsRank items
\* without compressing.
InitRank == Construct(DefaultMaxItems, MaxAddsRank, MaxAddsRank)

NextRank == NextOver(RankEvents, Queries, {1, 3}, {"NONE"}, {None})

SpecRank == InitRank /\ [][NextRank]_vars

\* The length of the returned list: every kind of top_k, negative, zero, below
\* and above the number of candidates.
NextTopK == NextOver(Events, {None}, (0 - 1)..MaxAddsRetrieve, {"NONE", "MEDIUM"}, {None})

SpecTopK == Init /\ [][NextTopK]_vars

\* Timestamps in and out of the MM:SS format.
NextTimestamp == NextOver(TimestampEvents, {None}, {20}, {"NONE"}, {None})

SpecTimestamp == Init /\ [][NextTimestamp]_vars

\* Filtered retrieval over a store that compresses at the second insertion.
InitKeep == Construct(DefaultMaxItems, 1, MaxAddsRetrieve)

NextKeep == NextOver(FilterEvents, Queries, {20}, {"NONE", "MEDIUM"}, {None})

SpecKeep == InitKeep /\ [][NextKeep]_vars

\* Timestamps over the whole game clock and beyond it.
NextClock == NextOver(ClockEvents, Queries, {20}, {"NONE"}, {None})

SpecClock == Init /\ [][NextClock]_vars

\* Queries against event types and descriptions.
NextRelevance ==
  NextOver(RelevanceEvents, {Some(QPass), Some(QRun), Some(QLongPass)}, {20},
           {"NONE"}, {None})

SpecRelevance == Init /\ [][NextRelevance]_vars

\* ------------------------------------------- DeepResearchService

\* self.max_history (deep_research.py line 48)
MaxHistory == 10

\* top_k of the retrievals of analyze_strategy and answer_question
ResearchTopK == 15

\* The default compression_threshold, which DeepResearchService leaves as it is
DefaultCompressionThreshold == 100

\* lst[-n:] for n > 0
LastN(lst, n) == SubSeq(lst, Max(Len(lst) - n, 0) + 1, Len(lst))

\* if len(self.conversation_history) > self.max_history: keep the last ones
Trimmed(history) ==
  IF Len(history) > MaxHistory THEN LastN(history, MaxHistory) ELSE history

\* self.context_store.items after the retrieve_ranked_context(query, top_k=15)
\* and the get_context_summary that both methods start with
ItemsAfterResearch(query) ==
  Retrieve(Retrieve(items, Some(query), ResearchTopK, "NONE", None).items,
           None, SummaryTopK, "NONE", None).items

\* What a language-model call can do: return a response with text, raise in
\* generate_content, or return a response whose .text raises
LlmOutcomes == {"ok", "raises", "no_text"}

\* The variables a DeepResearchService method sets besides its own
ResearchCall(op, query, llm) ==
  /\ lastOp' = op
  /\ lastArgs' = [kind |-> "research", query |-> query, llm |-> llm]
  /\ lastResult' = NoResult
  /\ lastOutcome' = "returned"
  /\ repeatedCall' = FALSE
  /\ afterInsert' = <<>>
  /\ compressPasses' = 0
  /\ UNCHANGED <<max_items, compression_threshold, creation_time,
                 last_compression_time, budget, issuedIds>>

\* analyze_strategy(query, game_state).  init_ok: initialize() succeeds when it
\* is called.  The user entry is appended before the model is called (line
\* 165), the assistant entry and the trim come after it (lines 173-177), and
\* every exception is caught (line 188).
AnalyzeStrategy(query, init_ok, llm) ==
  LET ready == initialized \/ init_ok
      asked == Append(conversation_history, "user")
  IN /\ (ready /\ llm # "ok") => Len(conversation_history) < MaxConversation
     /\ initialized' = ready
     /\ items' = IF ready THEN ItemsAfterResearch(query) ELSE items
     /\ conversation_history' =
          IF ~ready THEN conversation_history
          ELSE IF llm = "ok" THEN Trimmed(Append(asked, "assistant"))
          ELSE asked
     /\ ResearchCall("analyze_strategy", query, llm)
     /\ UNCHANGED <<event_counter, replayItems, idsSinceClear>>

\* answer_question(query, game_state).  The model is called first (line 236);
\* then the user entry is appended (line 239), response.text is read for the
\* assistant entry (line 240), and the history is trimmed (lines 242-243).
AnswerQuestion(query, init_ok, llm) ==
  LET ready == initialized \/ init_ok
      asked == Append(conversation_history, "user")
  IN /\ (ready /\ llm = "no_text") => Len(conversation_history) < MaxConversation
     /\ initialized' = ready
     /\ items' = IF ready THEN ItemsAfterResearch(query) ELSE items
     /\ conversation_history' =
          IF ~ready \/ llm = "raises" THEN conversation_history
          ELSE IF llm = "ok" THEN Trimmed(Append(asked, "assistant"))
          ELSE asked
     /\ ResearchCall("answer_question", query, llm)
     /\ UNCHANGED <<event_counter, replayItems, idsSinceClear>>

\* clear_conversation()
ClearConversation ==
  /\ conversation_history' = <<>>
  /\ ResearchCall("clear_conversation", <<>>, "none")
  /\ UNCHANGED <<items, event_counter, replayItems, idsSinceClear, initialized>>

\* reset_context(): context_store.clear() and conversation_history.clear()
ResetContext ==
  /\ items' = <<>>
  /\ event_counter' = 0
  /\ replayItems' = <<>>
  /\ idsSinceClear' = <<>>
  /\ conversation_history' = <<>>
  /\ ResearchCall("reset_context", <<>>, "none")
  /\ UNCHANGED initialized

InitResearch == Construct(DefaultMaxItems, DefaultCompressionThreshold, 0)

NextResearch ==
  \/ \E init_ok \in BOOLEAN, llm \in LlmOutcomes : AnalyzeStrategy(QPass, init_ok, llm)
  \/ \E init_ok \in BOOLEAN, llm \in LlmOutcomes : AnswerQuestion(QPass, init_ok, llm)
  \/ ClearConversation
  \/ ResetContext

SpecResearch == InitResearch /\ [][NextResearch]_vars

\* ------------------------------------------------------------------ claims

StoredIds == {items[i].id : i \in 1..Len(items)}

\* C1: after every add_event call on a store with compression_threshold >= 0
\* the number of stored items is at most max(max_items, compression_threshold).
C1_BoundedSize ==
  (lastOp = "add_event" /\ compression_threshold >= 0)
    => Len(items) <= Max(max_items, compression_threshold)

\* An insertion took the store above the bound and the compression it
\* triggered brought it back under it.
C1_Witness ==
  /\ lastOp = "add_event"
  /\ compression_threshold >= 0
  /\ Len(afterInsert) > Max(max_items, compression_threshold)
  /\ compressPasses = 1
  /\ Len(items) > 0

\* C2: whenever a compression pass has finished, the store holds at most
\* max_items items, whatever max_items and compression_threshold are.
C2_HardCapAfterCompression ==
  compressPasses = 1 => Len(items) <= max_items

\* C3: after a compression pass no evicted item has a rank_score, from the
\* scores stored when the pass ran, strictly higher than a retained item's.
C3_EvictionPreference ==
  compressPasses = 1 =>
    \A i, j \in 1..Len(afterInsert) :
      (afterInsert[i].id \notin StoredIds /\ afterInsert[j].id \in StoredIds)
        => RankScore(afterInsert[i]) <= RankScore(afterInsert[j])

\* A pass evicted an item inserted before an item it kept, the kept one
\* ranking strictly higher.
C3_Witness ==
  /\ compressPasses = 1
  /\ \E i, j \in 1..Len(afterInsert) :
       /\ i < j
       /\ afterInsert[i].id \notin StoredIds
       /\ afterInsert[j].id \in StoredIds
       /\ RankScore(afterInsert[i]) < RankScore(afterInsert[j])

\* C4: an add_event that leaves n items after inserting runs exactly one
\* compression pass when n > compression_threshold, after which the store
\* holds exactly floor(0.6 * n) items; when n <= compression_threshold it
\* evicts nothing.
C4_CompressionSize ==
  lastOp = "add_event" =>
    LET n == Len(afterInsert)
    IN IF n > compression_threshold
       THEN /\ compressPasses = 1
            /\ 10 * Len(items) <= 6 * n
            /\ 6 * n < 10 * (Len(items) + 1)
       ELSE /\ compressPasses = 0
            /\ items = afterInsert

\* A pass that kept one item of three, where 0.6 * n rounded to the nearest
\* would keep two.
C4_Witness ==
  /\ lastOp = "add_event"
  /\ Len(afterInsert) > compression_threshold
  /\ Len(afterInsert) = 3
  /\ Len(items) = 1

\* C5: every id add_event returns differs from every id the same store
\* returned before, whatever calls (clear() included) came in between.
C5_IdsNeverRepeat ==
  [][event_counter' = event_counter + 1 => lastResult' \notin issuedIds]_vars

IsRetrieval == lastOp = "retrieve_ranked_context"

\* The stored item of the given id, and the place of an id in a returned list
ItemOf(id) == items[CHOOSE i \in 1..Len(items) : items[i].id = id]
PlaceIn(lst, id) == CHOOSE k \in 1..Len(lst) : lst[k] = id
Returned == {lastResult[k] : k \in 1..Len(lastResult)}

\* The order of the levels the claims speak of: CRITICAL > HIGH > MEDIUM > LOW
LevelOrder(level) ==
  CASE level = "CRITICAL" -> 4
    [] level = "HIGH"     -> 3
    [] level = "MEDIUM"   -> 2
    [] level = "LOW"      -> 1

\* C6: two consecutive retrieve_ranked_context calls with the same query,
\* top_k, importance_filter and team_filter return the same items in the
\* same order.
C6_RepeatableRetrieval ==
  [][(IsRetrieval /\ lastOp' = lastOp /\ lastArgs' = lastArgs)
       => lastResult' = lastResult]_vars

\* The same retrieval, with a query, ran twice in a row and returned two
\* items.
C6_Witness ==
  /\ IsRetrieval
  /\ repeatedCall
  /\ Truthy(lastArgs.query)
  /\ Len(lastResult) >= 2

\* C7: a retrieve_ranked_context call that repeats the call before it leaves
\* every stored item with the scores the first call left (and so with the
\* same rank_score).
C7_IdempotentScoring ==
  [][(IsRetrieval /\ lastOp' = lastOp /\ lastArgs' = lastArgs)
       => /\ Len(items') = Len(items)
          /\ \A i \in 1..Len(items) :
               /\ items'[i].recency_score = items[i].recency_score
               /\ items'[i].relevance_score = items[i].relevance_score
               /\ RankScore(items'[i]) = RankScore(items[i])]_vars

\* The same retrieval ran twice in a row over an item whose relevance it
\* raised above the insertion value without reaching 1.0 and whose recency
\* it lowered.
C7_Witness ==
  /\ IsRetrieval
  /\ repeatedCall
  /\ \E i \in 1..Len(items) :
       /\ items[i].relevance_score < Unit
       /\ items[i].relevance_score >
            CalculateRelevanceScore(items[i].event_type, items[i].description, None)
       /\ items[i].recency_score < Unit

\* C8: of two stored items that differ only in importance and are both
\* candidates of a retrieval, the one of higher importance has the rank_score
\* that is greater or equal, is never placed after the other in the returned
\* list, and is returned whenever the other is.
C8_ImportanceMonotone ==
  IsRetrieval =>
    \A i, j \in 1..Len(items) :
      ( /\ IsCandidate(items[i], lastArgs.importance_filter, lastArgs.team_filter)
        /\ IsCandidate(items[j], lastArgs.importance_filter, lastArgs.team_filter)
        /\ items[i].timestamp = items[j].timestamp
        /\ items[i].event_type = items[j].event_type
        /\ items[i].description = items[j].description
        /\ items[i].team = items[j].team
        /\ LevelOrder(items[i].importance) > LevelOrder(items[j].importance) )
      => /\ RankScore(items[i]) >= RankScore(items[j])
         /\ items[j].id \in Returned
              => /\ items[i].id \in Returned
                 /\ PlaceIn(lastResult, items[i].id) < PlaceIn(lastResult, items[j].id)

\* C9: retrieve_ranked_context with a non-empty team_filter t returns only
\* items whose team is t: none without a team, none of another team.
C9_TeamFilterExact ==
  (IsRetrieval /\ Truthy(lastArgs.team_filter)) =>
    \A id \in Returned :
      /\ ItemOf(id).team.some
      /\ ItemOf(id).team.val = lastArgs.team_filter.val

\* A retrieval with a team filter returned an item and left out a stored item
\* without a team or of another team.
C9_Witness ==
  /\ IsRetrieval
  /\ Truthy(lastArgs.team_filter)
  /\ lastArgs.importance_filter = "NONE"
  /\ Len(lastResult) = 1
  /\ \E i \in 1..Len(items) : items[i].id \notin Returned /\ ~items[i].team.some

\* C10: retrieve_ranked_context with importance_filter L returns only items
\* of importance at least L in the order CRITICAL > HIGH > MEDIUM > LOW, and
\* leaves out no item at or above L because of its importance (every such
\* item that passes the team filter is returned when top_k allows).
C10_ImportanceFilterOrder ==
  (IsRetrieval /\ lastArgs.importance_filter # "NONE") =>
    /\ \A id \in Returned :
         LevelOrder(ItemOf(id).importance) >= LevelOrder(lastArgs.importance_filter)
    /\ \A i \in 1..Len(items) :
         ( /\ LevelOrder(items[i].importance) >= LevelOrder(lastArgs.importance_filter)
           /\ Truthy(lastArgs.team_filter) => items[i].team = lastArgs.team_filter
           /\ Len(items) <= lastArgs.top_k )
         => items[i].id \in Returned

\* The item of id a was inserted before the item of id b
InsertedBefore(a, b) == PlaceIn(Ids(items), a) < PlaceIn(Ids(items), b)

\* The store holds the three events of the scenario
HoldsScenario ==
  /\ \E i \in 1..Len(items) : items[i].timestamp = TS1500 /\ items[i].importance = "MEDIUM"
  /\ \E i \in 1..Len(items) : items[i].timestamp = TS1000 /\ items[i].importance = "CRITICAL"
  /\ \E i \in 1..Len(items) : items[i].timestamp = TS0500 /\ items[i].importance = "LOW"

\* C11: the list retrieve_ranked_context returns is in non-increasing order of
\* the rank the items have with the scores the call left in them; of two
\* returned items of equal rank the one inserted earlier comes first; and when
\* the store holds events at 15:00 (MEDIUM), 10:00 (CRITICAL touchdown) and
\* 05:00 (LOW), the CRITICAL one is returned first.
C11_RankOrder ==
  IsRetrieval =>
    /\ \A k, l \in 1..Len(lastResult) :
         k < l =>
           /\ RankScore(ItemOf(lastResult[k])) >= RankScore(ItemOf(lastResult[l]))
           /\ RankScore(ItemOf(lastResult[k])) = RankScore(ItemOf(lastResult[l]))
                => InsertedBefore(lastResult[k], lastResult[l])
    /\ (HoldsScenario /\ Len(lastResult) > 0)
         => ItemOf(lastResult[1]).importance = "CRITICAL"

\* Reached: the three events of the scenario were retrieved with top_k = 3, the
\* event inserted last first.
C11_Witness ==
  /\ IsRetrieval /\ lastArgs.top_k = 3 /\ HoldsScenario /\ Len(lastResult) = 3
  /\ ItemOf(lastResult[1]).importance = "CRITICAL"
  /\ PlaceIn(Ids(items), lastResult[1]) = 3

\* Reached: two returned items have the same rank.
C11_WitnessTie ==
  /\ IsRetrieval /\ Len(lastResult) = 3
  /\ RankScore(ItemOf(lastResult[1])) = RankScore(ItemOf(lastResult[2]))

\* The stored items that pass the filters of the last retrieval
Candidates ==
  {items[i].id : i \in {j \in 1..Len(items) :
      IsCandidate(items[j], lastArgs.importance_filter, lastArgs.team_filter)}}

\* C12: with top_k >= 0 retrieve_ranked_context returns exactly
\* min(top_k, c) items, c the number of stored items that pass the filters,
\* all of them candidates, and no candidate left out has a rank strictly above
\* the rank of a returned one.
C12_TopKCount ==
  (IsRetrieval /\ lastArgs.top_k >= 0) =>
    /\ Len(lastResult) = Min(lastArgs.top_k, Cardinality(Candidates))
    /\ Cardinality(Returned) = Len(lastResult)
    /\ Returned \subseteq Candidates
    /\ \A out \in Candidates \ Returned, r \in Returned :
         RankScore(ItemOf(out)) <= RankScore(ItemOf(r))

\* Reached: a retrieval returned top_k >= 1 items and left a candidate of
\* lower rank out.
C12_Witness ==
  /\ IsRetrieval /\ lastArgs.top_k >= 1
  /\ Len(lastResult) = lastArgs.top_k
  /\ \E out \in Candidates \ Returned :
       RankScore(ItemOf(out)) < RankScore(ItemOf(lastResult[Len(lastResult)]))

\* Reached: top_k is above the number of candidates and a stored item does not
\* pass the filter.
C12_WitnessFiltered ==
  /\ IsRetrieval /\ lastArgs.top_k > Len(lastResult)
  /\ Len(lastResult) = 1 /\ Len(items) = 2

\* A timestamp that parses as integer minutes, optionally followed by ':' and
\* integer seconds
ParsesAsMinutesSeconds(timestamp) ==
  LET parts == SplitOn(timestamp, 58)
  IN /\ Len(parts) \in {1, 2}
     /\ \A i \in 1..Len(parts) : IntParse(parts[i]).ok

\* C13: add_event with a timestamp that does not parse as integer minutes
\* optionally followed by ':' and integer seconds returns without an error and
\* stores the item, and every retrieval or summary in which such an item is a
\* candidate returns without an error and leaves its recency_score at 0.5.
C13_MalformedRecency ==
  /\ (lastOp = "add_event" /\ ~ParsesAsMinutesSeconds(lastArgs.event.timestamp))
       => (lastOutcome = "returned" /\ lastResult \in StoredIds)
  /\ lastOp \in {"retrieve_ranked_context", "get_context_summary"}
       => /\ lastOutcome = "returned"
          /\ \A i \in 1..Len(items) :
               ~ParsesAsMinutesSeconds(items[i].timestamp)
                 => items[i].recency_score = Pct(50)

\* C14: retrieve_ranked_context with a negative top_k ends in an error and
\* returns no list.
C14_NegativeTopKRaises ==
  (IsRetrieval /\ lastArgs.top_k < 0) => lastOutcome = "raised"

\* C15: clear() leaves the store with no items and event_counter 0; a
\* get_stats right after it reports total_items 0 and an empty
\* items_by_importance; an add_event right after it is numbered 1.
C15_ClearResets ==
  [][ /\ lastOp' = "clear" => (items' = <<>> /\ event_counter' = 0)
      /\ (lastOp = "clear" /\ lastOp' = "get_stats")
           => /\ lastResult'.total_items = 0
              /\ DOMAIN lastResult'.items_by_importance = {}
      /\ (lastOp = "clear" /\ lastOp' = "add_event")
           => /\ event_counter' = 1
              /\ lastResult' = EventId(1, lastArgs'.event.timestamp) ]_vars

\* Reached: get_stats reports an empty store whose counter is 0 after ids
\* were issued, so a clear() emptied a store that had been filled.
C15_Witness ==
  /\ lastOp = "get_stats" /\ lastResult.total_items = 0
  /\ event_counter = 0 /\ Cardinality(issuedIds) = MaxAddsRetrieve

\* C16: retrieve_ranked_context and get_context_summary change nothing but the
\* recency_score and relevance_score of the items that pass the filters of the
\* call: the configuration, event_counter, last_compression_time, the stored
\* items and their order, every other field of every item, and both scores of
\* the items the filters exclude stay as they were.
C16_ReadersOnlyRescore ==
  [][ lastOp' \in {"retrieve_ranked_context", "get_context_summary"} =>
        LET passes(item) ==
              \/ lastOp' = "get_context_summary"
              \/ IsCandidate(item, lastArgs'.importance_filter, lastArgs'.team_filter)
        IN /\ UNCHANGED <<max_items, compression_threshold, event_counter,
                          creation_time, last_compression_time>>
           /\ Len(items') = Len(items)
           /\ \A i \in 1..Len(items) :
                /\ [items'[i] EXCEPT !.recency_score = items[i].recency_score,
                                     !.relevance_score = items[i].relevance_score]
                     = items[i]
                /\ ~passes(items[i]) => items'[i] = items[i] ]_vars

\* Reached: a retrieval rescored one stored item and its filter excluded
\* another, which still has the recency 1.0 of its insertion although its
\* timestamp scores lower.
C16_Witness ==
  /\ IsRetrieval
  /\ \E i, j \in 1..Len(items) :
       /\ ~IsCandidate(items[i], lastArgs.importance_filter, lastArgs.team_filter)
       /\ items[i].recency_score = Unit
       /\ CalculateRecencyScore(items[i].timestamp) < Unit
       /\ IsCandidate(items[j], lastArgs.importance_filter, lastArgs.team_filter)
       /\ items[j].recency_score < Unit

\* The fields of an item that add_event sets and nothing rescored
Given(item) ==
  [id |-> item.id, timestamp |-> item.timestamp, event_type |-> item.event_type,
   description |-> item.description, importance |-> item.importance,
   team |-> item.team, player_name |-> item.player_name]

\* C17: every stored item has the id, timestamp, event_type, description,
\* importance, team and player_name that add_event gave it, and an item leaves
\* the store only in the compression pass of an add_event call or in clear(),
\* never in retrieve_ranked_context, get_context_summary or get_stats.
C17_ItemsKeepFields ==
  [][ /\ \A i \in 1..Len(items') :
           IF items'[i].id \in StoredIds
           THEN Given(items'[i]) = Given(ItemOf(items'[i].id))
           ELSE /\ lastOp' = "add_event"
                /\ Given(items'[i]) =
                     [id |-> lastResult',
                      timestamp |-> lastArgs'.event.timestamp,
                      event_type |-> lastArgs'.event.event_type,
                      description |-> lastArgs'.event.description,
                      importance |-> lastArgs'.event.importance,
                      team |-> lastArgs'.event.team,
                      player_name |-> lastArgs'.event.player_name]
      /\ StoredIds \ StoredIds' # {}
           => \/ lastOp' = "clear"
              \/ lastOp' = "add_event" /\ compressPasses' > 0 ]_vars

\* Reached: after a compression pass evicted an item, a retrieval whose filter
\* excludes the stored item returned nothing and the item is still stored.
C17_Witness ==
  /\ IsRetrieval /\ last_compression_time > 2
  /\ Len(items) > 0 /\ lastResult = <<>>
  /\ Cardinality(issuedIds) > Len(items)

RECURSIVE SumOf(_)
\* The sum of the values of a function
SumOf(f) ==
  IF DOMAIN f = {} THEN 0
  ELSE LET k == CHOOSE x \in DOMAIN f : TRUE
       IN f[k] + SumOf([x \in DOMAIN f \ {k} |-> f[x]])

\* C18: get_stats changes nothing in the store and reports total_items = the
\* number of stored items, max_items as configured, and in
\* items_by_importance, for each level, the number of stored items of that
\* level; a level no item has is absent, and the counts add up to total_items.
C18_StatsReport ==
  [][ lastOp' = "get_stats" =>
        LET histogram == lastResult'.items_by_importance
            count(level) == Cardinality({i \in 1..Len(items) : items[i].importance = level})
        IN /\ store' = store
           /\ lastResult'.total_items = Len(items)
           /\ lastResult'.max_items = max_items
           /\ DOMAIN histogram =
                {ImportanceValue(level) : level \in {l \in Levels : count(l) > 0}}
           /\ \A level \in Levels :
                count(level) > 0 => histogram[ImportanceValue(level)] = count(level)
           /\ SumOf(histogram) = lastResult'.total_items ]_vars

\* Reached: get_stats reports three items of two levels.
C18_Witness ==
  /\ lastOp = "get_stats" /\ lastResult.total_items = 3
  /\ Cardinality(DOMAIN lastResult.items_by_importance) = 2
  /\ Len(items) = 3

\* The stored items with the relevance add_event gave them, which is the
\* relevance they have in a store that never ran a retrieval with a query
WithoutQueries(its) ==
  [i \in 1..Len(its) |->
     [its[i] EXCEPT !.relevance_score =
        CalculateRelevanceScore(its[i].event_type, its[i].description, None)]]

\* C19: for the same stored events and game_state, get_context_summary and
\* retrieve_ranked_context without a query select and order the same items
\* whatever retrievals with a query ran before: the result is the one of a
\* store in which none ran.
C19_NoQueryIgnoresHistory ==
  /\ (IsRetrieval /\ ~Truthy(lastArgs.query))
       => lastResult =
            Ids(Retrieve(WithoutQueries(items), None, lastArgs.top_k,
                         lastArgs.importance_filter, lastArgs.team_filter).result)
  /\ lastOp = "get_context_summary"
       => lastResult =
            SummaryText(Retrieve(WithoutQueries(items), None, SummaryTopK,
                                 "NONE", None).result,
                        lastArgs.has_state)

\* C20: a fresh store of the same configuration that is given the same
\* add_event calls, and none of the retrievals and summaries that ran in
\* between, holds the same items in the same order: which items survive
\* compression depends on the add_event calls alone.
C20_ReplayReproduces ==
  [i \in 1..Len(items) |-> Given(items[i])]
    = [i \in 1..Len(replayItems) |-> Given(replayItems[i])]

\* The queries of two readers
ReaderQueries == {None, Some(QPass), Some(QRun)}

\* C21: two retrieve_ranked_context calls of different readers commute on
\* the stored scores: whichever of the two runs first on the store, every
\* item has the same recency_score and relevance_score after both.
C21_ReadersCommute ==
  \A q1, q2 \in ReaderQueries, f1, f2 \in {"NONE", "MEDIUM"} :
    ItemsAfterRetrieve(ItemsAfterRetrieve(items, q1, f1, None), q2, f2, None)
      = ItemsAfterRetrieve(ItemsAfterRetrieve(items, q2, f2, None), q1, f1, None)

\* The weights the claims give the levels, in tenths
LevelWeight(level) ==
  CASE level = "CRITICAL" -> 10
    [] level = "HIGH"     -> 8
    [] level = "MEDIUM"   -> 6
    [] level = "LOW"      -> 4

\* C22: every stored item has recency_score and relevance_score within
\* [0, 1], and its rank_score is (recency_score + relevance_score) / 2 times
\* the weight of its importance (CRITICAL 1.0, HIGH 0.8, MEDIUM 0.6, LOW 0.4),
\* which is within [0, 1].  Scores are in units of 1/900 and RankScore is 20
\* times the rank_score in those units.
C22_ScoreRanges ==
  \A i \in 1..Len(items) :
    /\ items[i].recency_score \in 0..Unit
    /\ items[i].relevance_score \in 0..Unit
    /\ RankScore(items[i])
         = (items[i].recency_score + items[i].relevance_score)
             * LevelWeight(items[i].importance)
    /\ RankScore(items[i]) \in 0..(20 * Unit)

\* Reached: a retrieval with a query left an item of a timestamp after the
\* end of the clock with recency 0, and another with relevance above its
\* insertion value.
C22_Witness ==
  /\ IsRetrieval /\ Truthy(lastArgs.query)
  /\ \E i, j \in 1..Len(items) :
       /\ items[i].timestamp = TS1640 /\ items[i].recency_score = 0
       /\ items[j].relevance_score
            > CalculateRelevanceScore(items[j].event_type, items[j].description, None)

C24_CompressionUsesStoredScores ==
  [][ lastOp' = "add_event" =>
        /\ \A i \in 1..Len(afterInsert') :
             IF afterInsert'[i].id = lastResult'
             THEN /\ afterInsert'[i].recency_score = Unit
                  /\ afterInsert'[i].relevance_score =
                       CalculateRelevanceScore(afterInsert'[i].event_type,
                                               afterInsert'[i].description, None)
             ELSE \E j \in 1..Len(items) : items[j] = afterInsert'[i]
        /\ \A k \in 1..Len(items') :
             /\ \E i \in 1..Len(afterInsert') : afterInsert'[i] = items'[k]
             /\ \A i \in 1..Len(afterInsert') :
                  afterInsert'[i].id \notin StoredIds'
                    => RankScore(afterInsert'[i]) <= RankScore(items'[k]) ]_vars

\* Reached: a compression pass kept an item that no retrieval had covered,
\* still at recency 1.0 although its timestamp scores lower, and evicted an
\* item whose scores a retrieval had set and whose rank would not be the lower
\* one with the recency of both recomputed.
C24_Witness ==
  /\ lastOp = "add_event" /\ compressPasses > 0
  /\ \E k \in 1..Len(items), i \in 1..Len(afterInsert) :
       /\ items[k].recency_score = Unit
       /\ CalculateRecencyScore(items[k].timestamp) < Unit
       /\ afterInsert[i].id \notin StoredIds
       /\ afterInsert[i].recency_score < Unit
       /\ RankScore([items[k] EXCEPT
                       !.recency_score = CalculateRecencyScore(items[k].timestamp)])
            <= RankScore(afterInsert[i])

\* A timestamp of the form "M:S" with integers M and S, and its seconds
IsMinutesSeconds(timestamp) ==
  LET parts == SplitOn(timestamp, 58)
  IN Len(parts) = 2 /\ IntParse(parts[1]).ok /\ IntParse(parts[2]).ok

TotalSeconds(timestamp) ==
  LET parts == SplitOn(timestamp, 58)
  IN 60 * IntParse(parts[1]).val + IntParse(parts[2]).val

\* C25: the recency_score a retrieval or summary leaves in an item whose
\* timestamp is "M:S" with integers M and S is 1 - (60 M + S) / 900 clamped
\* to [0, 1]: 1 at 00:00, 0 from 15:00 on, and non-increasing in the seconds.
C25_RecencyFormula ==
  lastOp \in {"retrieve_ranked_context", "get_context_summary"} =>
    \A i \in 1..Len(items) :
      IsMinutesSeconds(items[i].timestamp) =>
        LET total == TotalSeconds(items[i].timestamp)
            recency == items[i].recency_score
        IN /\ recency = (IF total >= Unit THEN 0
                         ELSE IF total <= 0 THEN Unit ELSE Unit - total)
           /\ total = 0 => recency = Unit
           /\ total >= 15 * 60 => recency = 0
           /\ \A j \in 1..Len(items) :
                (IsMinutesSeconds(items[j].timestamp)
                   /\ TotalSeconds(items[j].timestamp) >= total)
                  => items[j].recency_score <= recency

\* Reached: a retrieval left recency 2/3 in an item of 05:00 and 0 in one of
\* 16:40.
C25_Witness ==
  /\ IsRetrieval
  /\ \E i, j \in 1..Len(items) :
       /\ items[i].timestamp = TS0500 /\ items[i].recency_score = Pct(200) \div 3
       /\ items[j].timestamp = TS1640 /\ items[j].recency_score = 0

\* The table of the claim, in its order, the values in hundredths: pass, run,
\* turnover, scoring, sack, interception, fumble, touchdown, field_goal
ClaimedTable == <<
  <<<<112, 97, 115, 115>>, 70>>,
  <<<<114, 117, 110>>, 70>>,
  <<<<116, 117, 114, 110, 111, 118, 101, 114>>, 90>>,
  <<<<115, 99, 111, 114, 105, 110, 103>>, 95>>,
  <<<<115, 97, 99, 107>>, 80>>,
  <<<<105, 110, 116, 101, 114, 99, 101, 112, 116, 105, 111, 110>>, 90>>,
  <<<<102, 117, 109, 98, 108, 101>>, 90>>,
  <<<<116, 111, 117, 99, 104, 100, 111, 119, 110>>, 95>>,
  <<<<102, 105, 101, 108, 100, 95, 103, 111, 97, 108>>, 85>> >>

\* The base of the claim: the value of the first key of the table contained in
\* the event type (compared in lower case), 0.5 when none is
ClaimedBase(event_type) ==
  LET found == {i \in 1..Len(ClaimedTable) :
                  Contains(ClaimedTable[i][1], Lower(event_type))}
  IN IF found = {} THEN Pct(50)
     ELSE Pct(ClaimedTable[CHOOSE i \in found : \A j \in found : i <= j][2])

\* The relevance of the claim for a non-empty query
ClaimedRelevance(event_type, description, q) ==
  LET words == SplitWords(Lower(q))
      k == Cardinality({i \in 1..Len(words) :
             Len(words[i]) > 3 /\ Contains(words[i], Lower(description))})
      whole == IF Contains(Lower(q), Lower(description)) THEN 1 ELSE 0
  IN Min(Unit, ClaimedBase(event_type) + whole * Pct(30) + k * Pct(10))

\* C26: the relevance a retrieval with a non-empty query leaves in an item
\* is min(1, base + 0.3 [the lower-cased query is in the lower-cased
\* description] + 0.1 k), k the number of query words of more than 3
\* characters found in the description, base the table value of the first
\* key contained in the event type or 0.5; it is never below the relevance
\* the item got at insertion.
C26_RelevanceFormula ==
  (IsRetrieval /\ Truthy(lastArgs.query)) =>
    \A i \in 1..Len(items) :
      /\ items[i].relevance_score =
           ClaimedRelevance(items[i].event_type, items[i].description,
                            lastArgs.query.val)
      /\ items[i].relevance_score >= ClaimedBase(items[i].event_type)
      /\ ClaimedBase(items[i].event_type)
           = NewItem(items[i].id, items[i]).relevance_score

\* Reached: a retrieval with the query "LONG PASS" left relevance 1.0 in a
\* "kick" (0.5 + 0.3 + 0.2) and 0.7 in a "Touchdown pass" described "TD run".
C26_Witness ==
  /\ IsRetrieval /\ lastArgs.query = Some(QLongPass)
  /\ \E i, j \in 1..Len(items) :
       /\ items[i].event_type = Kick /\ items[i].relevance_score = Unit
       /\ items[j].event_type = TouchdownPass /\ items[j].relevance_score = Pct(70)

AllTied == \A i, j \in 1..Len(afterInsert) :
             RankScore(afterInsert[i]) = RankScore(afterInsert[j])

\* C28: of two items of equal rank_score a compression pass never keeps the
\* one inserted later while it evicts the one inserted earlier; when all n
\* items have the same rank_score it keeps the floor(0.6 n) inserted first and
\* evicts the n - floor(0.6 n) inserted last.
C28_TiesKeepOldest ==
  (lastOp = "add_event" /\ compressPasses > 0) =>
    /\ \A i, j \in 1..Len(afterInsert) :
         (i < j /\ RankScore(afterInsert[i]) = RankScore(afterInsert[j])
            /\ afterInsert[j].id \in StoredIds)
           => afterInsert[i].id \in StoredIds
    /\ AllTied =>
         items = SubSeq(afterInsert, 1, (6 * Len(afterInsert)) \div 10)

\* Reached: a pass over at least three items of one rank kept the first and
\* evicted the new one.
C28_Witness ==
  /\ lastOp = "add_event" /\ compressPasses > 0
  /\ AllTied /\ Len(afterInsert) >= 3
  /\ items # <<>> /\ lastResult \notin StoredIds

\* C29: between two clear() calls, or from construction to the first, the ids
\* add_event returned are pairwise distinct whatever the timestamps, the
\* stored items have pairwise distinct ids, each one an id add_event returned
\* in that time, and event_counter is the number of add_event calls made in
\* that time: every add_event adds exactly 1 to it, and retrieval, summary,
\* get_stats and compression leave it alone.
C29_IdsDistinctSinceClear ==
  [][ /\ \A i, j \in 1..Len(idsSinceClear') :
           i # j => idsSinceClear'[i] # idsSinceClear'[j]
      /\ \A i, j \in 1..Len(items') : i # j => items'[i].id # items'[j].id
      /\ StoredIds' \subseteq {idsSinceClear'[i] : i \in 1..Len(idsSinceClear')}
      /\ event_counter' = Len(idsSinceClear')
      /\ lastOp' = "add_event" => event_counter' = event_counter + 1
      /\ lastOp' \in {"retrieve_ranked_context", "get_context_summary", "get_stats"}
           => event_counter' = event_counter ]_vars

\* Reached: after a clear(), add_event was called twice with one timestamp and
\* its compression pass evicted an item; the counter is 2.
C29_Witness ==
  /\ lastOp = "add_event" /\ compressPasses > 0
  /\ event_counter = 2 /\ Len(items) < 2
  /\ Cardinality(issuedIds) > 2
  /\ SubSeq(idsSinceClear[1], 9, Len(idsSinceClear[1]))
       = SubSeq(idsSinceClear[2], 9, Len(idsSinceClear[2]))

\* C30: whenever analyze_strategy, answer_question, clear_conversation or
\* reset_context has returned, also after a failed language-model call,
\* conversation_history holds at most max_history (10) entries.
C30_HistoryBounded == Len(conversation_history) <= MaxHistory

====
